---------------------------- MODULE Spec2Model ----------------------------
(***************************************************************************)
(* Otsu thresholding (src/project/otsu.py): threshold, segmented_threshold *)
(* and sliding_window_threshold.                                           *)
(*                                                                         *)
(* Images are 8-bit single-channel arrays.  A pixel is <<row, column>>,    *)
(* both counted from 0 as in the source.                                   *)
(*                                                                         *)
(* threshold() computes in binary floating point.  The model computes the  *)
(* same expressions in the same order in binary floating point too, every  *)
(* operation rounded to nearest, ties to even, with a mantissa of          *)
(* MantissaBits bits in place of the 53 (or 24) of the source; a float is  *)
(* <<m, e>>, the number m * 2^e.  The running sum of the sliding window    *)
(* holds integers a float64 represents exactly, so it is kept an integer.  *)
(*                                                                         *)
(* The histogram of the source has 256 bins.  The images of the model use  *)
(* the gray levels 0 .. NumLevels-1 only, and the model keeps the first    *)
(* NumLevels bins: every bin above the brightest level of an image is      *)
(* empty and adds an exact 0.0 to every sum, and every candidate threshold *)
(* at or above NumLevels-1 has an upper group of probability 0 and is      *)
(* skipped by the source (line 49).                                        *)
(***************************************************************************)
EXTENDS Integers, Sequences, FiniteSets

\* ------------------------------------------------------------ bounds
NumLevels == 4
MantissaBits == 8
\* threshold() alone: every one-row image of at most OtsuPixels pixels
OtsuPixels == 4
\* the three functions together
MaxPixels == 4
MaxHeight == 3
MaxLength == 3
MaxSegments == 3
MaxWindow == 2
MaxStride == 2

\* The element type of an image, and of every array made like it, is uint8.
Uint8Modulus == 256

Levels == 0 .. (NumLevels - 1)

VARIABLES
    image_height,     \* image.shape[0]
    image_length,     \* image.shape[1]
    image,            \* the pixels: [Pixels -> Levels]
    call,             \* the function called
    args,             \* its arguments after the image
    pc,               \* "idle", "loop" (inside the window loop), "done", "raised"
    best_threshold,   \* threshold(): the level its scan chose
    threshold_mask,   \* the mask being written (for the sliding window: the running sum)
    num_repetitions,  \* sliding window: the running count, uint8
    visited,          \* the <<vertical_offset, horizontal_offset>> the loops have visited
    remaining,        \* the offsets the window loop has yet to visit
    result            \* sliding window: threshold_mask / num_repetitions

vars == <<image_height, image_length, image, call, args, pc, best_threshold,
          threshold_mask, num_repetitions, visited, remaining, result>>

\* ------------------------------------------------------------ arithmetic
Min(a, b) == IF a < b THEN a ELSE b

Abs(a) == IF a < 0 THEN -a ELSE a

Sign(a) == IF a < 0 THEN -1 ELSE 1

\* The number of bits of n >= 0.
RECURSIVE BitLen(_)
BitLen(n) == IF n = 0 THEN 0 ELSE 1 + BitLen(n \div 2)

\* a / 2^k (a >= 0, k >= 1) rounded to the nearest integer, ties to even.
RoundShift(a, k) ==
    LET q == a \div (2 ^ k)
        r == a % (2 ^ k)
        half == 2 ^ (k - 1)
    IN  IF r > half \/ (r = half /\ q % 2 = 1) THEN q + 1 ELSE q

\* The float nearest to m * 2^e: a mantissa of MantissaBits bits, or zero.
Normalize(m, e) ==
    IF m = 0 THEN <<0, 0>>
    ELSE LET a == Abs(m)
             n == BitLen(a)
         IN  IF n > MantissaBits
             THEN LET q == RoundShift(a, n - MantissaBits)
                  IN  IF q = 2 ^ MantissaBits
                      THEN <<Sign(m) * (2 ^ (MantissaBits - 1)), e + n - MantissaBits + 1>>
                      ELSE <<Sign(m) * q, e + n - MantissaBits>>
             ELSE <<m * (2 ^ (MantissaBits - n)), e - (MantissaBits - n)>>

\* An integer as a float.
FInt(n) == Normalize(n, 0)

FZero == <<0, 0>>

\* float('inf'): above every variance.
FInf == <<2 ^ (MantissaBits - 1), 1024>>

FNeg(x) == <<-x[1], x[2]>>

\* x + y.  An operand below a quarter of the other's last place changes nothing.
FAdd(x, y) ==
    IF x[1] = 0 THEN y
    ELSE IF y[1] = 0 THEN x
    ELSE IF x[2] - y[2] >= MantissaBits + 2 THEN x
    ELSE IF y[2] - x[2] >= MantissaBits + 2 THEN y
    ELSE IF x[2] >= y[2]
         THEN Normalize(x[1] * (2 ^ (x[2] - y[2])) + y[1], y[2])
         ELSE Normalize(y[1] * (2 ^ (y[2] - x[2])) + x[1], x[2])

FSub(x, y) == FAdd(x, FNeg(y))

FMul(x, y) == Normalize(x[1] * y[1], x[2] + y[2])

\* x / y (y # 0): the quotient to MantissaBits + 2 bits and a sticky bit, rounded.
FDiv(x, y) ==
    IF x[1] = 0 THEN FZero
    ELSE LET n == Abs(x[1]) * (2 ^ (MantissaBits + 1))
             q == n \div Abs(y[1])
             sticky == IF n % Abs(y[1]) = 0 THEN 0 ELSE 1
         IN  Normalize(Sign(x[1]) * Sign(y[1]) * (2 * q + sticky),
                       x[2] - y[2] - MantissaBits - 2)

\* x < y
FLess(x, y) == FSub(y, x)[1] > 0

\* Exact rationals <<numerator, denominator>>, for line 192 and for reference values.
RECURSIVE GCD(_, _)
GCD(a, b) == IF b = 0 THEN a ELSE GCD(b, a % b)

\* n/d (d > 0) in lowest terms
Rat(n, d) ==
    LET g == GCD(Abs(n), d)
    IN  <<n \div g, d \div g>>

\* x < y
RLess(x, y) == x[1] * y[2] < y[1] * x[2]

\* ------------------------------------------------------------ slicing
\* The indices a[offset : offset + size] selects from an axis of length n
\* (offset >= 0): the slice is clipped to the axis.
Slice(n, offset, size) == offset .. (Min(offset + size, n) - 1)

Pixels(height, length) == (0 .. (height - 1)) \X (0 .. (length - 1))

\* The pixels of image[vo : vo + sh, ho : ho + sl].
Region(vo, sh, ho, sl) ==
    Slice(image_height, vo, sh) \X Slice(image_length, ho, sl)

\* ------------------------------------------------------------ threshold()
\* cv2.calcHist: bin g counts the pixels of the region with gray level g.
calcHist(region) ==
    [g \in Levels |-> Cardinality({p \in region : image[p] = g})]

\* The list of bin_count / num_pixels, as a sequence (index k holds level k-1).
gray_level_probabilities(region) ==
    LET histogram == calcHist(region)
        num_pixels == Cardinality(region)
    IN  [k \in 1 .. NumLevels |-> FDiv(FInt(histogram[k - 1]), FInt(num_pixels))]

\* probabilities[:threshold]: the candidate level left out of the lower class.
LowerSliceExclusive(probabilities, t) == SubSeq(probabilities, 1, t)

\* probabilities[:threshold+1]
LowerSlice(probabilities, t) == SubSeq(probabilities, 1, t + 1)

\* probabilities[threshold+1:]
UpperSlice(probabilities, t) == SubSeq(probabilities, t + 2, Len(probabilities))

\* sum(list)
RECURSIVE SumList(_)
SumList(s) ==
    IF s = <<>> THEN FZero ELSE FAdd(SumList(SubSeq(s, 1, Len(s) - 1)), s[Len(s)])

\* sum([gray_level * probability for gray_level, probability in enumerate(list)]):
\* enumerate counts from 0 whatever slice it is given.
RECURSIVE WeightedSum(_)
WeightedSum(s) ==
    IF s = <<>> THEN FZero
    ELSE FAdd(WeightedSum(SubSeq(s, 1, Len(s) - 1)),
              FMul(FInt(Len(s) - 1), s[Len(s)]))

\* sum([((gray_level - mean)**2) * probability for ... in enumerate(list)])
RECURSIVE SquaredDeviationSum(_, _)
SquaredDeviationSum(s, mean) ==
    IF s = <<>> THEN FZero
    ELSE LET d == FSub(FInt(Len(s) - 1), mean)
         IN  FAdd(SquaredDeviationSum(SubSeq(s, 1, Len(s) - 1), mean),
                  FMul(FMul(d, d), s[Len(s)]))

lower_group_probability(probabilities, t) == SumList(LowerSlice(probabilities, t))

upper_group_probability(probabilities, t) == SumList(UpperSlice(probabilities, t))

\* The candidate is skipped (line 49).
Skipped(lower_probability, upper_probability) ==
    lower_probability = FZero \/ upper_probability = FZero

group_mean(slice, probability) == FDiv(WeightedSum(slice), probability)

group_variance(slice, probability) ==
    LET mean == group_mean(slice, probability)
    IN  FDiv(SquaredDeviationSum(slice, mean), probability)

\* Lines 52-73, given the two group probabilities of lines 46-47.
intraclass_variance(probabilities, t, lower_probability, upper_probability) ==
    FAdd(FMul(lower_probability,
              group_variance(LowerSlice(probabilities, t), lower_probability)),
         FMul(upper_probability,
              group_variance(UpperSlice(probabilities, t), upper_probability)))

\* intraclass_variance < min_intraclass_variance (line 75)
Improves(variance, min_intraclass_variance) == FLess(variance, min_intraclass_variance)

\* The loop of lines 45-77 from candidate t on; state = <<best_threshold,
\* min_intraclass_variance>>.
RECURSIVE ScanFrom(_, _, _)
ScanFrom(probabilities, t, state) ==
    IF t >= Len(probabilities) THEN state
    ELSE LET lp == lower_group_probability(probabilities, t)
             up == upper_group_probability(probabilities, t)
             v == intraclass_variance(probabilities, t, lp, up)
         IN  IF Skipped(lp, up) THEN ScanFrom(probabilities, t + 1, state)
             ELSE IF Improves(v, state[2])
             THEN ScanFrom(probabilities, t + 1, <<t, v>>)
             ELSE ScanFrom(probabilities, t + 1, state)

\* <<best_threshold, min_intraclass_variance>> after the loop, lines 42-77.
OtsuScan(region) == ScanFrom(gray_level_probabilities(region), 0, <<-1, FInf>>)

\* np.full_like(image, fill_value): the fill value is cast to the image's uint8.
FillValue(fill_value) == fill_value % Uint8Modulus

\* The value of every cell of threshold(region).
threshold(region) == FillValue(OtsuScan(region)[1])

\* ------------------------------------------------------------ images
\* Larger images: uniform, a ramp over the levels in row-major order, and the
\* two extreme levels in a checkerboard.
PatternImages(height, length) ==
    {[p \in Pixels(height, length) |-> 0],
     [p \in Pixels(height, length) |-> (p[1] * length + p[2]) % NumLevels],
     [p \in Pixels(height, length) |-> ((p[1] + p[2]) % 2) * (NumLevels - 1)]}

\* Every image of at most MaxPixels pixels over the two darkest levels, and
\* patterned larger ones.
Images(height, length) ==
    IF height * length <= MaxPixels
    THEN [Pixels(height, length) -> {0, 1}]
    ELSE PatternImages(height, length)

AllPixels == Pixels(image_height, image_length)

NoArray == << >>

\* Nothing called yet.
Idle ==
    /\ call = "none"
    /\ args = << >>
    /\ pc = "idle"
    /\ best_threshold = -1
    /\ threshold_mask = NoArray
    /\ num_repetitions = NoArray
    /\ visited = << >>
    /\ remaining = << >>
    /\ result = NoArray

Init ==
    /\ image_height \in 1 .. MaxHeight
    /\ image_length \in 1 .. MaxLength
    /\ image \in Images(image_height, image_length)
    /\ Idle

\* threshold(image)
CallThreshold ==
    /\ pc = "idle"
    /\ call' = "threshold"
    /\ args' = << >>
    /\ pc' = "done"
    /\ LET chosen == OtsuScan(AllPixels)[1]
       IN  /\ best_threshold' = chosen
           /\ threshold_mask' = [p \in AllPixels |-> FillValue(chosen)]
    /\ num_repetitions' = NoArray
    /\ visited' = << >>
    /\ remaining' = << >>
    /\ result' = NoArray
    /\ UNCHANGED <<image_height, image_length, image>>

\* ------------------------------------------------------------ segmented_threshold()
\* range(0, stop, step) as a sequence (step >= 1); empty when stop <= 0.
RangeSeq(stop, step) ==
    IF stop <= 0 THEN << >>
    ELSE [k \in 1 .. ((stop + step - 1) \div step) |-> (k - 1) * step]

\* The offsets two nested range loops visit, in the order they visit them.
NestedOffsets(vertical, horizontal) ==
    [k \in 1 .. (Len(vertical) * Len(horizontal)) |->
        <<vertical[((k - 1) \div Len(horizontal)) + 1],
          horizontal[((k - 1) % Len(horizontal)) + 1]>>]

\* The segment height taken from the other axis of the image.
segment_height_of_length(num_vertical_segments) == image_length \div num_vertical_segments + 1

\* Lines 112-113.
segment_height(num_vertical_segments) == image_height \div num_vertical_segments + 1

segment_length(num_horizontal_segments) == image_length \div num_horizontal_segments + 1

\* Only the offsets of whole segments: range(0, dimension - segment + 1, segment).
WholeSegmentOffsets(dimension, segment) == RangeSeq(dimension - segment + 1, segment)

\* The offsets of one axis, lines 117-118.
SegmentOffsets(dimension, segment) == RangeSeq(dimension, segment)

\* The pixels of the block at `offset`, lines 119-122 and 127-130.
BlockExtent(offset, nv, nh) ==
    Region(offset[1], segment_height(nv), offset[2], segment_length(nh))

\* Lines 125-130: the block's threshold is written over the block.
WriteBlock(mask, offset, nv, nh) ==
    LET block == BlockExtent(offset, nv, nh)
        value == threshold(block)
    IN  [p \in AllPixels |-> IF p \in block THEN value ELSE mask[p]]

RECURSIVE WriteBlocks(_, _, _, _)
WriteBlocks(mask, offsets, nv, nh) ==
    IF offsets = << >> THEN mask
    ELSE WriteBlocks(WriteBlock(mask, Head(offsets), nv, nh), Tail(offsets), nv, nh)

\* np.zeros_like(image)
ZerosLike == [p \in AllPixels |-> 0]

\* segmented_threshold(image, nv, nh); the two ValueErrors (lines 104-107) leave
\* only nv >= 1 and nh >= 1.
CallSegmentedThreshold(nv, nh) ==
    /\ pc = "idle"
    /\ nv >= 1
    /\ nh >= 1
    /\ LET offsets == NestedOffsets(SegmentOffsets(image_height, segment_height(nv)),
                                    SegmentOffsets(image_length, segment_length(nh)))
       IN  /\ visited' = offsets
           /\ threshold_mask' = WriteBlocks(ZerosLike, offsets, nv, nh)
    /\ call' = "segmented_threshold"
    /\ args' = <<nv, nh>>
    /\ pc' = "done"
    /\ best_threshold' = -1
    /\ num_repetitions' = NoArray
    /\ remaining' = << >>
    /\ result' = NoArray
    /\ UNCHANGED <<image_height, image_length, image>>

\* ------------------------------------------------------------ sliding_window_threshold()
\* range(0, dimension - window, stride): the stride left out of the stop value.
WindowOffsetsShort(dimension, window, stride) == RangeSeq(dimension - window, stride)

\* A window cut with the window height on both axes.
SquareWindowExtent(offset, window_height, window_length) ==
    Region(offset[1], window_height, offset[2], window_height)

\* The offsets of one axis, lines 172-173.
WindowOffsets(dimension, window, stride) == RangeSeq(dimension - window + stride, stride)

\* The pixels of the window at `offset`, lines 174-177.
WindowExtent(offset, window_height, window_length) ==
    Region(offset[1], window_height, offset[2], window_length)

\* num_repetitions[...] += 1 on a uint8 array.
Increment(count) == (count + 1) % Uint8Modulus

\* Lines 180-190 for one window; acc = <<threshold_mask, num_repetitions>>.
\* np.mean of the window's uniform mask is the mask's value.
ApplyWindow(acc, offset, window_height, window_length) ==
    LET window == WindowExtent(offset, window_height, window_length)
        value == threshold(window)
    IN  IF window = {} THEN acc
        ELSE <<[p \in AllPixels |-> IF p \in window THEN acc[1][p] + value ELSE acc[1][p]],
               [p \in AllPixels |-> IF p \in window THEN Increment(acc[2][p]) ELSE acc[2][p]]>>

RECURSIVE RunWindows(_, _, _, _)
RunWindows(acc, offsets, window_height, window_length) ==
    IF offsets = << >> THEN acc
    ELSE RunWindows(ApplyWindow(acc, Head(offsets), window_height, window_length),
                    Tail(offsets), window_height, window_length)

\* One cell of threshold_mask / num_repetitions (line 192): a zero count gives
\* nan (<<0, 0>>) or inf (<<1, 0>>).
Quotient(sum, count) ==
    IF count = 0 THEN <<IF sum = 0 THEN 0 ELSE 1, 0>> ELSE Rat(sum, count)

Average(acc) == [p \in AllPixels |-> Quotient(acc[1][p], acc[2][p])]

\* Some window of the loop lies outside the image: its slice is empty.
SomeEmptyWindow(offsets, window_height, window_length) ==
    \E k \in 1 .. Len(offsets) : WindowExtent(offsets[k], window_height, window_length) = {}

AllWindowOffsets(window_height, window_length, vertical_stride, horizontal_stride) ==
    NestedOffsets(WindowOffsets(image_height, window_height, vertical_stride),
                  WindowOffsets(image_length, window_length, horizontal_stride))

\* sliding_window_threshold(image, wh, wl, vs, hs); the four ValueErrors (lines
\* 158-165) leave only arguments >= 1.  threshold() of an empty window either
\* returns an empty mask, whose mean (nan) is added to no cell, or raises
\* inside cv2.calcHist: both outcomes are kept.
CallSlidingWindowThreshold(wh, wl, vs, hs) ==
    /\ pc = "idle"
    /\ wh >= 1 /\ wl >= 1 /\ vs >= 1 /\ hs >= 1
    /\ call' = "sliding_window_threshold"
    /\ args' = <<wh, wl, vs, hs>>
    /\ best_threshold' = -1
    /\ remaining' = << >>
    /\ UNCHANGED <<image_height, image_length, image>>
    /\ LET offsets == AllWindowOffsets(wh, wl, vs, hs)
           acc == RunWindows(<<ZerosLike, ZerosLike>>, offsets, wh, wl)
       IN  \/ /\ pc' = "done"
              /\ visited' = offsets
              /\ threshold_mask' = acc[1]
              /\ num_repetitions' = acc[2]
              /\ result' = Average(acc)
           \/ /\ SomeEmptyWindow(offsets, wh, wl)
              /\ pc' = "raised"
              /\ visited' = << >>
              /\ threshold_mask' = NoArray
              /\ num_repetitions' = NoArray
              /\ result' = NoArray

Next ==
    \/ CallThreshold
    \/ \E nv, nh \in 1 .. MaxSegments : CallSegmentedThreshold(nv, nh)
    \/ \E wh, wl \in 1 .. MaxWindow, vs, hs \in 1 .. MaxStride :
           CallSlidingWindowThreshold(wh, wl, vs, hs)

Spec == Init /\ [][Next]_vars

\* ------------------------------------------------------------ threshold() alone
\* Every one-row image of at most OtsuPixels pixels over all the levels.
OtsuInit ==
    /\ image_height = 1
    /\ image_length \in 1 .. OtsuPixels
    /\ image \in [Pixels(image_height, image_length) -> Levels]
    /\ Idle

OtsuNext == CallThreshold

SpecOtsu == OtsuInit /\ [][OtsuNext]_vars
\* ------------------------------------------------------------ many windows on one pixel
\* sliding_window_threshold() window by window, on a one-row image wide enough
\* for a pixel to lie in Uint8Modulus windows.
WideLength == 2 * Uint8Modulus - 1

WideArgs ==
    {<<1, Uint8Modulus, 1, 1>>,
     <<1, Uint8Modulus - 1, 1, 1>>,
     <<1, Uint8Modulus, 1, WideLength>>}

WideInit ==
    /\ image_height = 1
    /\ image_length = WideLength
    /\ image \in {[p \in Pixels(image_height, image_length) |-> v] : v \in Levels}
    /\ Idle

\* Lines 158-173: the arrays are made and the offsets laid out.
EnterWindowLoop(wh, wl, vs, hs) ==
    /\ pc = "idle"
    /\ wh >= 1 /\ wl >= 1 /\ vs >= 1 /\ hs >= 1
    /\ call' = "sliding_window_threshold"
    /\ args' = <<wh, wl, vs, hs>>
    /\ pc' = "loop"
    /\ threshold_mask' = ZerosLike
    /\ num_repetitions' = ZerosLike
    /\ visited' = << >>
    /\ remaining' = AllWindowOffsets(wh, wl, vs, hs)
    /\ result' = NoArray
    /\ UNCHANGED <<image_height, image_length, image, best_threshold>>

\* Lines 174-190 for the next window.
WindowStep ==
    /\ pc = "loop"
    /\ remaining # << >>
    /\ LET offset == Head(remaining)
           acc == ApplyWindow(<<threshold_mask, num_repetitions>>, offset, args[1], args[2])
       IN  \/ /\ pc' = "loop"
              /\ threshold_mask' = acc[1]
              /\ num_repetitions' = acc[2]
              /\ visited' = Append(visited, offset)
              /\ remaining' = Tail(remaining)
           \/ /\ WindowExtent(offset, args[1], args[2]) = {}
              /\ pc' = "raised"
              /\ threshold_mask' = NoArray
              /\ num_repetitions' = NoArray
              /\ visited' = << >>
              /\ remaining' = << >>
    /\ UNCHANGED <<image_height, image_length, image, call, args, best_threshold, result>>

\* Line 192.
FinishWindowLoop ==
    /\ pc = "loop"
    /\ remaining = << >>
    /\ pc' = "done"
    /\ result' = Average(<<threshold_mask, num_repetitions>>)
    /\ UNCHANGED <<image_height, image_length, image, call, args, best_threshold,
                   threshold_mask, num_repetitions, visited, remaining>>

WideNext ==
    \/ \E a \in WideArgs : EnterWindowLoop(a[1], a[2], a[3], a[4])
    \/ WindowStep
    \/ FinishWindowLoop

SpecWide == WideInit /\ [][WideNext]_vars
\* ------------------------------------------------------------ reference values
\* The sum of g^e over the pixels of the region with gray level g in lo .. hi.
RECURSIVE LevelMoment(_, _, _, _)
LevelMoment(region, lo, hi, e) ==
    IF lo > hi THEN 0
    ELSE Cardinality({p \in region : image[p] = hi}) * (hi ^ e)
         + LevelMoment(region, lo, hi - 1, e)

ClassSize(region, lo, hi) == Cardinality({p \in region : lo <= image[p] /\ image[p] <= hi})

\* (size of the class)^2 times the variance of the gray levels of the class lo .. hi.
ClassSpread(region, lo, hi) ==
    ClassSize(region, lo, hi) * LevelMoment(region, lo, hi, 2)
    - LevelMoment(region, lo, hi, 1) * LevelMoment(region, lo, hi, 1)

\* The candidates with a pixel at or below t and a pixel above t.
ValidLevels(region) ==
    {t \in Levels : ClassSize(region, 0, t) > 0 /\ ClassSize(region, t + 1, NumLevels - 1) > 0}

\* J(t) = P_lower * var_lower + P_upper * var_upper over the real gray levels,
\* an exact rational; t is a valid level.
TrueVariance(region, t) ==
    LET nl == ClassSize(region, 0, t)
        nu == ClassSize(region, t + 1, NumLevels - 1)
    IN  Rat(ClassSpread(region, 0, t) * nu + ClassSpread(region, t + 1, NumLevels - 1) * nl,
            Cardinality(region) * nl * nu)

\* The smallest valid level that minimises J.
SmallestMinimiser(region) ==
    CHOOSE t \in ValidLevels(region) :
        \A u \in ValidLevels(region) :
            \/ RLess(TrueVariance(region, t), TrueVariance(region, u))
            \/ TrueVariance(region, t) = TrueVariance(region, u) /\ t <= u

ThresholdDone == pc = "done" /\ call = "threshold"

SegmentedDone == pc = "done" /\ call = "segmented_threshold"

SlidingDone == pc = "done" /\ call = "sliding_window_threshold"

PixelValues == {image[p] : p \in AllPixels}

\* The indices of the visited windows whose clipped extent holds pixel p.
WindowsOver(p) ==
    {k \in 1 .. Len(visited) : p \in WindowExtent(visited[k], args[1], args[2])}

\* The indices of the visited blocks whose clipped extent holds pixel p.
BlocksOver(p) ==
    {k \in 1 .. Len(visited) : p \in BlockExtent(visited[k], args[1], args[2])}

\* ------------------------------------------------------------ properties
\* C1: the level threshold() chooses is never a skipped candidate, and when
\* some candidate has pixels on both sides it is the smallest level that
\* minimises the true intra-class variance J.
C1_SmallestTrueMinimiser ==
    ThresholdDone =>
        /\ best_threshold \in ValidLevels(AllPixels) \cup {-1}
        /\ ValidLevels(AllPixels) # {} => best_threshold = SmallestMinimiser(AllPixels)

\* C5 as stated: on an image of exactly two values a < b the chosen level is
\* strictly between them and the intra-class variance there is zero.
C5_StrictlyBetween ==
    (ThresholdDone /\ Cardinality(PixelValues) = 2) =>
        \E a, b \in PixelValues :
            /\ a < best_threshold
            /\ best_threshold < b
            /\ TrueVariance(AllPixels, best_threshold) = <<0, 1>>

\* C5 amended: on an image of exactly two values a < b the chosen level t has
\* a <= t < b, so it separates the two populations exactly, and the true
\* intra-class variance at t is zero.
C5_SeparatesExactly ==
    (ThresholdDone /\ Cardinality(PixelValues) = 2) =>
        \E a, b \in PixelValues :
            /\ a <= best_threshold
            /\ best_threshold < b
            /\ \A p \in AllPixels : image[p] = (IF image[p] <= best_threshold THEN a ELSE b)
            /\ TrueVariance(AllPixels, best_threshold) = <<0, 1>>

\* A two-valued image with a level strictly between its values, thresholded at
\* the lower value.
C5_Witness ==
    /\ ThresholdDone
    /\ Cardinality(PixelValues) = 2
    /\ \E a, b \in PixelValues : a + 1 < b /\ best_threshold = a

\* C6: on an image of one value every candidate is skipped and every mask cell
\* holds the sentinel -1.
C6_SentinelInMask ==
    (ThresholdDone /\ Cardinality(PixelValues) = 1) =>
        /\ ValidLevels(AllPixels) = {}
        /\ best_threshold = -1
        /\ \A p \in AllPixels : threshold_mask[p] = -1

\* C2: the blocks segmented_threshold visits start inside the image, are not
\* empty after clipping, and every pixel lies in exactly one of them.
C2_BlocksPartition ==
    SegmentedDone =>
        /\ \A k \in 1 .. Len(visited) :
               /\ visited[k][1] \in 0 .. (image_height - 1)
               /\ visited[k][2] \in 0 .. (image_length - 1)
               /\ BlockExtent(visited[k], args[1], args[2]) # {}
               /\ BlockExtent(visited[k], args[1], args[2]) \subseteq AllPixels
        /\ \A p \in AllPixels : Cardinality(BlocksOver(p)) = 1

\* Segment counts that do not divide the image: several blocks, the last one clipped.
C2_Witness ==
    /\ SegmentedDone
    /\ Len(visited) >= 2
    /\ image_height % args[1] # 0
    /\ \E k \in 1 .. Len(visited) :
           Cardinality(BlockExtent(visited[k], args[1], args[2]))
               < segment_height(args[1]) * segment_length(args[2])

\* C7: segmented_threshold runs on num_vertical_segments * num_horizontal_segments blocks.
C7_BlockCount ==
    SegmentedDone => Len(visited) = args[1] * args[2]

\* C4: segmented_threshold(image, 1, 1) is threshold(image), cell for cell.
C4_OneSegmentIsGlobal ==
    (SegmentedDone /\ args = <<1, 1>>) =>
        threshold_mask = [p \in AllPixels |-> threshold(AllPixels)]

\* One segment each way over an image of several rows and two values.
C4_Witness ==
    /\ SegmentedDone
    /\ args = <<1, 1>>
    /\ image_height >= 2
    /\ Cardinality(PixelValues) = 2
    /\ \A p \in AllPixels : threshold_mask[p] \in Levels

\* C3: when sliding_window_threshold divides, no pixel has a count of zero.
C3_NoZeroCount ==
    SlidingDone => \A p \in AllPixels : num_repetitions[p] > 0

FullWindow ==
    /\ args[1] = image_height
    /\ args[2] = image_length
    /\ args[3] >= image_height
    /\ args[4] >= image_length

\* C8: a window of the image's size with strides of at least the image's size
\* is evaluated once and leaves threshold(image) in every cell.
C8_FullWindowIsGlobal ==
    (call = "sliding_window_threshold" /\ FullWindow) =>
        /\ pc = "done"
        /\ Len(visited) = 1
        /\ \A p \in AllPixels : result[p] = <<threshold(AllPixels), 1>>

\* A full window over an image of two rows and two columns with a valid threshold.
C8_Witness ==
    /\ SlidingDone
    /\ FullWindow
    /\ image_height >= 2
    /\ image_length >= 2
    /\ \A p \in AllPixels : result[p][1] \in Levels

WindowFits ==
    /\ args[1] <= image_height
    /\ args[2] <= image_length
    /\ args[3] <= args[1]
    /\ args[4] <= args[2]

\* C9: when the window fits the image and no stride exceeds the window, every
\* offset of the loops starts a non-empty window and every pixel is covered.
C9_WindowsCover ==
    (call = "sliding_window_threshold" /\ WindowFits) =>
        /\ pc = "done"
        /\ \A k \in 1 .. Len(visited) : WindowExtent(visited[k], args[1], args[2]) # {}
        /\ \A p \in AllPixels : WindowsOver(p) # {}

\* Several windows of a fitting size, the last one clipped at an edge.
C9_Witness ==
    /\ SlidingDone
    /\ WindowFits
    /\ Len(visited) >= 2
    /\ \E k \in 1 .. Len(visited) :
           Cardinality(WindowExtent(visited[k], args[1], args[2])) < args[1] * args[2]

\* C10: for every covered pixel the count is the number of windows over it and
\* the mask cell is the accumulated sum of their thresholds divided by that number.
C10_ExactAverage ==
    SlidingDone =>
        /\ \A p \in AllPixels :
               WindowsOver(p) # {} => num_repetitions[p] = Cardinality(WindowsOver(p))
        /\ \A p \in AllPixels :
               WindowsOver(p) # {} =>
                   result[p] = Rat(threshold_mask[p], Cardinality(WindowsOver(p)))
=============================================================================
